---- MODULE Spec2Model ----
(***************************************************************************)
(* Model of the "Setup Go with Cache" action: src/src/main.js (the restore *)
(* phase, run by the job runner at job start) and src/src/post.js (the     *)
(* save phase, run at job end, followed in the same file by a second copy  *)
(* of the set-up routine, post.js lines 56-163).                           *)
(*                                                                         *)
(* Strings are sequences of atoms.  An atom is one character that matters  *)
(* to the code ("-" and the line break) or a run of characters holding     *)
(* neither.  The empty string, undefined and null are all the empty        *)
(* sequence: the code only ever tests them for truthiness or compares them *)
(* with a non-empty string.                                                *)
(*                                                                         *)
(* post.js is read as two scripts in sequence: lines 1-55, whose run() is  *)
(* the save phase, and lines 56-163, whose run() is called at line 163.    *)
(* Each call is bound to the definition of its own script.                 *)
(***************************************************************************)
EXTENDS Naturals, Sequences, FiniteSets

VARIABLES
  env,          \* per job run: the action's inputs and the runner's environment
  pc,           \* per job run: position of main.js, of the save phase, of the tail of post.js
  loc,          \* per job run: the local variables of run() in main.js and in the tail of post.js
  post,         \* per job run: the local variables of run() of the save phase
  state,        \* per job run: the job-scoped state store (core.saveState / core.getState)
  writes,       \* per job run: the core.saveState calls made so far, in order
  outputs,      \* per job run: the job-visible outputs (core.setOutput)
  failed,       \* per job run: the scripts that called core.setFailed
  warnings,     \* per job run: the core.warning calls made so far
  restoreCalls, \* per job run: the cache.restoreCache calls made so far, in order
  saveCalls,    \* per job run: the cache.saveCache calls made so far, in order
  store         \* the artifact store: the entries saved by the job runs

vars == <<env, pc, loc, post, state, writes, outputs, failed, warnings,
          restoreCalls, saveCalls, store>>

(***************************************************************************)
(* Bounds of the model                                                     *)
(***************************************************************************)
\* longest job-name input, in atoms
MaxJobNameLen == 3

(***************************************************************************)
(* Strings                                                                 *)
(***************************************************************************)
NL == "\n"
Absent == <<>>

\* Array.prototype.join with a one-character separator
RECURSIVE Join(_, _)
Join(list, sep) ==
  IF list = <<>> THEN <<>>
  ELSE IF Len(list) = 1 THEN list[1]
  ELSE list[1] \o <<sep>> \o Join(Tail(list), sep)

\* String.prototype.split with a one-character separator
RECURSIVE Split(_, _)
Split(s, sep) ==
  IF \A i \in 1..Len(s) : s[i] # sep THEN <<s>>
  ELSE LET i == CHOOSE k \in 1..Len(s) : s[k] = sep /\ \A j \in 1..(k - 1) : s[j] # sep
       IN  <<SubSeq(s, 1, i - 1)>> \o Split(SubSeq(s, i + 1, Len(s)), sep)

\* Array.prototype.filter(Boolean) on an array of strings
FilterBoolean(list) == SelectSeq(list, LAMBDA x : x # <<>>)

\* Boolean.prototype.toString
BoolToString(b) == IF b THEN <<"true">> ELSE <<"false">>

\* path.join of a directory and further path segments
RECURSIVE PathJoin(_, _)
PathJoin(dir, segs) ==
  IF segs = <<>> THEN dir ELSE PathJoin(dir \o <<"/", segs[1]>>, Tail(segs))

(***************************************************************************)
(* The environment of a job run                                            *)
(***************************************************************************)
Runs == {"r1", "r2"}
Scripts == {"main", "tail"}

PrimaryRef == "refs/heads/master"
Refs == {PrimaryRef, "refs/heads/main", "refs/pull/7/merge"}

JobAtoms == {"build", "-", NL}
\* core.getInput trims its value: no line break at either end
Trimmed(s) == s = <<>> \/ (s[1] # NL /\ s[Len(s)] # NL)
JobNameInputs ==
  {s \in UNION {[1..n -> JobAtoms] : n \in 0..MaxJobNameLen} : Trimmed(s)}
ContextJob == <<"test">>
Versions == {<<"1.22.0">>, <<"1.21.5">>}
FileHashes == {<<"a1b2c3d4">>}
Home == <<"/home/runner">>
\* the working-directory input, at its default
WorkingDirectory == <<".">>
\* the cache-dependency-path input: its default and a path of the caller's
DefaultDependencyPath == <<"go.sum">>
DependencyPaths == {DefaultDependencyPath, <<"tools", "go.sum">>}

Envs ==
  [goVersionFile : {<<>>, <<"go.mod">>},
   jobName       : JobNameInputs,
   RUNNER_OS     : {<<>>, <<"macOS">>},
   cacheDependencyPath : {DefaultDependencyPath}]

StateNames == {"cache-key", "cache-paths", "cache-hit"}
NoState == [n \in StateNames |-> Absent]
NoOutputs == [n \in {"go-version", "cache-hit"} |-> Absent]

NoLocals ==
  [error |-> "", jobName |-> <<>>, installedVersion |-> <<>>, goSumHash |-> <<>>,
   cacheKey |-> <<>>, restoreKeys |-> <<>>, cachePaths |-> <<>>,
   restoreKeysArray |-> <<>>, cacheHit |-> FALSE, restoredKey |-> <<>>,
   goSumPath |-> <<>>, goSumRead |-> ""]

NoPostLocals ==
  [exit |-> "", ref |-> "", cacheHit |-> FALSE, cacheKey |-> <<>>, cachePaths |-> <<>>,
   paths |-> <<>>]

(***************************************************************************)
(* Key derivation (main.js 19-26, 119-140; the same code at post.js 75-82, *)
(* 112-133)                                                                *)
(***************************************************************************)
\* process.env.RUNNER_OS || 'Linux'
Runner(e) == IF e.RUNNER_OS # <<>> THEN e.RUNNER_OS ELSE <<"Linux">>

\* core.getInput('job-name') || github.context.job
JobName(e) == IF e.jobName # <<>> THEN e.jobName ELSE ContextJob

\* a primary key that carries a count of the store calls made before it
CacheKey_Counted(runner, installedVersion, jobName, goSumHash) ==
  <<"golang", "-">> \o runner \o <<"-">> \o installedVersion \o <<"-">>
     \o jobName \o <<"-">> \o goSumHash
     \o (IF \E r \in Runs : restoreCalls[r] # <<>> THEN <<"-", "2">> ELSE <<>>)

\* `golang-${runner}-${installedVersion}-${jobName}-${goSumHash}`
CacheKey(runner, installedVersion, jobName, goSumHash) ==
  <<"golang", "-">> \o runner \o <<"-">> \o installedVersion \o <<"-">>
     \o jobName \o <<"-">> \o goSumHash

buildRestoreKeys(runneros, goVersion, jobName, goSumHash) ==
  Join(<< <<"golang", "-">> \o runneros \o <<"-">> \o goVersion \o <<"-">>
             \o jobName \o <<"-">> \o goSumHash,
          <<"golang", "-">> \o runneros \o <<"-">> \o goVersion \o <<"-">>
             \o jobName,
          <<"golang", "-">> \o runneros \o <<"-">> \o goVersion,
          <<"golang", "-">> \o runneros >>, NL)

\* restoreKeys.split('\n').filter(Boolean)
RestoreKeysArray(restoreKeys) == FilterBoolean(Split(restoreKeys, NL))

\* the two payload directories under the home directory
CachePaths == << PathJoin(Home, <<".cache", "go-build">>),
                 PathJoin(Home, <<"go", "pkg", "mod">>) >>

\* cachePaths.join('\n'), the value persisted as cache-paths
JoinPaths(cachePaths) == Join(cachePaths, NL)

\* any restored key taken for a hit
ComputeHit_Truthy(restoredKey, cacheKey) == restoredKey # <<>>

\* cacheHit = restoredKey === cacheKey
ComputeHit(restoredKey, cacheKey) == restoredKey = cacheKey

(***************************************************************************)
(* The collaborators: the platform's toolkit and the artifact store        *)
(***************************************************************************)
\* core.saveState(name, value)
saveState(st, name, value) == [st EXCEPT ![name] = value]

\* core.getState(name): the empty string when nothing was saved
getState(st, name) == st[name]

\* what cache.restoreCache(paths, primaryKey, restoreKeys) can answer: it throws,
\* it matches nothing, or it returns the key of the entry it restored (the
\* primary key, an entry named by a restore key, or an entry a restore key is
\* a prefix of)
Pending == [pending |-> TRUE, threw |-> FALSE, key |-> Absent]
RestoreAnswers(call) ==
  {[pending |-> FALSE, threw |-> TRUE, key |-> Absent],
   [pending |-> FALSE, threw |-> FALSE, key |-> Absent]}
    \cup {[pending |-> FALSE, threw |-> FALSE, key |-> k] :
            k \in {call.key}
                  \cup {call.restoreKeys[i] : i \in 1..Len(call.restoreKeys)}
                  \cup {call.restoreKeys[Len(call.restoreKeys)]
                          \o <<"-", "1.20.1", "-", "lint", "-", "deadbeef">>}}

\* what cache.saveCache(paths, key) can answer: an entry is never overwritten
\* (the first writer wins: a save under a key the store holds throws, "exists"),
\* an empty path list is refused, and any call may fail for another reason
SaveAnswers(call) ==
  {"failed"} \cup
  (IF \E e \in store : e.key = call.key THEN {"exists"}
   ELSE IF call.paths # <<>> THEN {"saved"} ELSE {})

(***************************************************************************)
(* run() of main.js (28-168) and run() of the tail of post.js (84-161).    *)
(* One action per stretch of code between two awaits.                      *)
(***************************************************************************)
Goto(r, p, l) == pc' = [pc EXCEPT ![r][p] = l]

\* the outer catch: core.setFailed  (main.js 165-167, post.js 158-160)
Fatal(r, p, why) ==
  /\ failed' = [failed EXCEPT ![r] = @ \cup {p}]
  /\ loc' = [loc EXCEPT ![r][p].error = why]
  /\ Goto(r, p, "done")

\* what the file system holds when main.js validates it (main.js 40, 53, 59);
\* the tail of post.js makes none of these checks
SetupChecks(p) ==
  IF p = "main"
  THEN {"ok", "Working directory does not exist", "Go version file not found",
        "Could not find Go version"}
  ELSE {"ok"}

\* main.js 31-62, post.js 87-96
Begin(r, p) ==
  /\ pc[r][p] = "start"
  /\ p = "tail" => pc[r].post \in {"await_save", "done"}
  /\ \E fs \in SetupChecks(p) :
       IF env[r].goVersionFile = <<>>
       THEN Fatal(r, p, "go-version-file input is required")
       ELSE IF fs # "ok"
       THEN Fatal(r, p, fs)
       ELSE /\ loc' = [loc EXCEPT ![r][p].jobName = JobName(env[r])]
            /\ Goto(r, p, "install")
            /\ UNCHANGED failed
  /\ UNCHANGED <<env, post, state, writes, outputs, warnings, restoreCalls,
                 saveCalls, store>>

\* what installing the toolchain can end in: exec throws, `go version` prints
\* no version (main.js 109-113), or a version is installed
InstallResults(p) ==
  {[ok |-> FALSE, why |-> "install failed", version |-> <<>>]}
    \cup (IF p = "main"
          THEN {[ok |-> FALSE, why |-> "Failed to verify Go installation",
                 version |-> <<>>]}
          ELSE {})
    \cup {[ok |-> TRUE, why |-> "", version |-> v] : v \in Versions}

\* main.js 68-116, post.js 102-109
Install(r, p) ==
  /\ pc[r][p] = "install"
  /\ \E res \in InstallResults(p) :
       IF ~res.ok
       THEN Fatal(r, p, res.why) /\ UNCHANGED outputs
       ELSE /\ loc' = [loc EXCEPT ![r][p].installedVersion = res.version]
            /\ outputs' = [outputs EXCEPT ![r]["go-version"] = res.version]
            /\ Goto(r, p, "hash")
            /\ UNCHANGED failed
  /\ UNCHANGED <<env, post, state, writes, warnings, restoreCalls, saveCalls,
                 store>>

\* the catch of getFileHash returning the empty string
getFileHash_Empty(readable, digest) == IF readable THEN digest ELSE <<>>

\* getFileHash (main.js 9-17, post.js 65-73): the first 8 hex digits of the
\* digest of the file, or 'missing' when the file cannot be read
getFileHash(readable, digest) == IF readable THEN digest ELSE <<"missing">>

\* path.join(workingDirectory, 'go.sum')  (main.js 120, post.js 113)
GoSumPath(workingDirectory) == PathJoin(workingDirectory, <<"go.sum">>)

\* main.js 120-121, post.js 113-114: fingerprint go.sum; an unreadable file
\* costs a warning (main.js 14).  goSumRead keeps what the file system answered.
Hash(r, p) ==
  /\ pc[r][p] = "hash"
  /\ \E readable \in BOOLEAN : \E digest \in FileHashes :
       /\ loc' = [loc EXCEPT ![r][p].goSumPath = GoSumPath(WorkingDirectory),
                             ![r][p].goSumHash = getFileHash(readable, digest),
                             ![r][p].goSumRead = IF readable THEN "read" ELSE "unreadable"]
       /\ warnings' = [warnings EXCEPT ![r] =
                         IF readable THEN @
                         ELSE @ \cup {[by |-> p, msg |-> "Could not read"]}]
  /\ Goto(r, p, "keys")
  /\ UNCHANGED <<env, post, state, writes, outputs, failed, restoreCalls,
                 saveCalls, store>>

\* main.js 119-146, post.js 112-139: derive the keys and call the store
CallRestore(r, p) ==
  /\ pc[r][p] = "keys"
  /\ LET l == loc[r][p]
         runner == Runner(env[r])
         cacheKey == CacheKey(runner, l.installedVersion, l.jobName, l.goSumHash)
         restoreKeys == buildRestoreKeys(runner, l.installedVersion, l.jobName,
                                         l.goSumHash)
         restoreKeysArray == RestoreKeysArray(restoreKeys)
     IN  /\ loc' = [loc EXCEPT ![r][p] =
                      [l EXCEPT !.cacheKey = cacheKey,
                                !.restoreKeys = restoreKeys,
                                !.cachePaths = CachePaths,
                                !.restoreKeysArray = restoreKeysArray,
                                !.cacheHit = FALSE,
                                !.restoredKey = Absent]]
         /\ restoreCalls' = [restoreCalls EXCEPT ![r] =
                               Append(@, [by |-> p, paths |-> CachePaths,
                                          key |-> cacheKey,
                                          restoreKeys |-> restoreKeysArray,
                                          answer |-> Pending])]
  /\ Goto(r, p, "await_restore")
  /\ UNCHANGED <<env, post, state, writes, outputs, failed, warnings, saveCalls,
                 store>>

\* cache-hit persisted only when it is true
PersistState_HitOnly(st, l) ==
  LET st2 == saveState(saveState(st, "cache-key", l.cacheKey),
                       "cache-paths", JoinPaths(l.cachePaths))
  IN  IF l.cacheHit THEN saveState(st2, "cache-hit", BoolToString(l.cacheHit))
      ELSE st2

\* the key the store matched persisted as cache-key
PersistState_RestoredKey(st, l) ==
  saveState(saveState(saveState(st, "cache-key",
                                IF l.restoredKey # <<>> THEN l.restoredKey
                                ELSE l.cacheKey),
                      "cache-paths", JoinPaths(l.cachePaths)),
            "cache-hit", BoolToString(l.cacheHit))

\* main.js 158-160, post.js 151-153: the three core.saveState calls
PersistState(st, l) ==
  saveState(saveState(saveState(st, "cache-key", l.cacheKey),
                      "cache-paths", JoinPaths(l.cachePaths)),
            "cache-hit", BoolToString(l.cacheHit))

\* the output set from the flag's initial value (main.js 142)
CacheHitOutput_Initial(l) == BoolToString(FALSE)

\* main.js 162: core.setOutput('cache-hit', cacheHit.toString())
CacheHitOutput(l) == BoolToString(l.cacheHit)

\* main.js 157-163, post.js 150-156: persist the locals l and set the output
Persist(r, p, l) ==
  /\ loc' = [loc EXCEPT ![r][p] = l]
  /\ state' = [state EXCEPT ![r] = PersistState(@, l)]
  /\ writes' = [writes EXCEPT ![r] =
                  @ \o << [name |-> "cache-key", by |-> p],
                          [name |-> "cache-paths", by |-> p],
                          [name |-> "cache-hit", by |-> p] >>]
  /\ outputs' = [outputs EXCEPT ![r]["cache-hit"] = CacheHitOutput(l)]
  /\ Goto(r, p, "done")
  /\ UNCHANGED failed

\* main.js 146-152, post.js 139-145: the store returned `key` (or nothing)
RestoreAnswered(r, p, key) ==
  /\ Persist(r, p, [loc[r][p] EXCEPT
                      !.restoredKey = key,
                      !.cacheHit = ComputeHit(key, loc[r][p].cacheKey)])
  /\ UNCHANGED warnings

\* no inner catch: the error reaches the outer catch and fails the job
RestoreThrew_Fatal(r, p) ==
  /\ Fatal(r, p, "Cache restore failed")
  /\ UNCHANGED <<warnings, state, writes, outputs>>

\* main.js 153-155, post.js 146-148: the store threw; the inner catch warns
RestoreThrew(r, p) ==
  /\ warnings' = [warnings EXCEPT ![r] =
                    @ \cup {[by |-> p, msg |-> "Cache restore failed"]}]
  /\ Persist(r, p, loc[r][p])

\* main.js 146-163, post.js 139-156: the store answers; persist the outcome
RestoreReturn(r, p) ==
  /\ pc[r][p] = "await_restore"
  /\ \E ans \in RestoreAnswers(restoreCalls[r][Len(restoreCalls[r])]) :
       /\ restoreCalls' = [restoreCalls EXCEPT ![r][Len(restoreCalls[r])].answer = ans]
       /\ IF ans.threw THEN RestoreThrew(r, p) ELSE RestoreAnswered(r, p, ans.key)
  /\ UNCHANGED <<env, post, saveCalls, store>>

(***************************************************************************)
(* run() of the save phase (post.js 5-53), called at post.js 55.  The only *)
(* await is the call of cache.saveCache; the guards are one action each.   *)
(***************************************************************************)
\* the branch guard dropped: every ref counts as the primary branch
IsPrimaryBranch_AnyRef(ref) == TRUE

\* post.js 11: ref !== 'refs/heads/master' is the negation of this
IsPrimaryBranch(ref) == ref = PrimaryRef

\* the persisted string compared with the boolean true: never equal
HitFlag_Boolean(st) == FALSE

\* post.js 17: core.getState('cache-hit') === 'true'
HitFlag(st) == getState(st, "cache-hit") = <<"true">>

\* && written for ||: the guard applies only when both are absent
ConfigMissing_Both(cacheKey, cachePaths) == cacheKey = <<>> /\ cachePaths = <<>>

\* post.js 29: !cacheKey || !cachePaths
ConfigMissing(cacheKey, cachePaths) == cacheKey = <<>> \/ cachePaths = <<>>

\* the joined string handed on as one path, never split
SplitPaths_Unsplit(cachePaths) == <<cachePaths>>

\* post.js 39: cachePaths.split('\n').filter(Boolean)
SplitPaths(cachePaths) == FilterBoolean(Split(cachePaths, NL))

Exit(r, why) ==
  /\ post' = [post EXCEPT ![r].exit = why]
  /\ Goto(r, "post", "done")

\* post.js 8-14: the branch guard.  The runner starts the post script once the
\* main script has ended, whether or not it failed.
BranchGuard(r) ==
  /\ pc[r].post = "start"
  /\ pc[r].main \in {"done", "none"}
  /\ \E ref \in Refs :
       IF ~IsPrimaryBranch(ref)
       THEN /\ post' = [post EXCEPT ![r].ref = ref, ![r].exit = "branch"]
            /\ Goto(r, "post", "done")
       ELSE /\ post' = [post EXCEPT ![r].ref = ref]
            /\ Goto(r, "post", "hit_guard")
  /\ UNCHANGED <<env, loc, state, writes, outputs, failed, warnings,
                 restoreCalls, saveCalls, store>>

\* the integrity guard evaluated before the hit guard
HitGuard_IntegrityFirst(r) ==
  /\ pc[r].post = "hit_guard"
  /\ LET cacheHit == HitFlag(state[r])
         cacheKey == getState(state[r], "cache-key")
         cachePaths == getState(state[r], "cache-paths")
     IN  IF ConfigMissing(cacheKey, cachePaths)
         THEN /\ post' = [post EXCEPT ![r].cacheKey = cacheKey,
                                      ![r].cachePaths = cachePaths,
                                      ![r].exit = "no-config"]
              /\ warnings' = [warnings EXCEPT ![r] = @ \cup
                   {[by |-> "post", msg |-> "Cache configuration not found"]}]
              /\ Goto(r, "post", "done")
         ELSE IF cacheHit
         THEN /\ post' = [post EXCEPT ![r].cacheHit = cacheHit, ![r].exit = "hit"]
              /\ Goto(r, "post", "done")
              /\ UNCHANGED warnings
         ELSE /\ post' = [post EXCEPT ![r].cacheHit = cacheHit]
              /\ Goto(r, "post", "integrity_guard")
              /\ UNCHANGED warnings
  /\ UNCHANGED <<env, loc, state, writes, outputs, failed, restoreCalls,
                 saveCalls, store>>

\* post.js 17-23: the hit guard
HitGuard(r) ==
  /\ pc[r].post = "hit_guard"
  /\ LET cacheHit == HitFlag(state[r])
     IN  IF cacheHit
         THEN /\ post' = [post EXCEPT ![r].cacheHit = cacheHit, ![r].exit = "hit"]
              /\ Goto(r, "post", "done")
         ELSE /\ post' = [post EXCEPT ![r].cacheHit = cacheHit]
              /\ Goto(r, "post", "integrity_guard")
  /\ UNCHANGED <<env, loc, state, writes, outputs, failed, warnings,
                 restoreCalls, saveCalls, store>>

\* post.js 26-32: the state-integrity guard
IntegrityGuard(r) ==
  /\ pc[r].post = "integrity_guard"
  /\ LET cacheKey == getState(state[r], "cache-key")
         cachePaths == getState(state[r], "cache-paths")
     IN  IF ConfigMissing(cacheKey, cachePaths)
         THEN /\ post' = [post EXCEPT ![r].cacheKey = cacheKey,
                                      ![r].cachePaths = cachePaths,
                                      ![r].exit = "no-config"]
              /\ warnings' = [warnings EXCEPT ![r] = @ \cup
                   {[by |-> "post", msg |-> "Cache configuration not found"]}]
              /\ Goto(r, "post", "done")
         ELSE /\ post' = [post EXCEPT ![r].cacheKey = cacheKey,
                                      ![r].cachePaths = cachePaths]
              /\ Goto(r, "post", "save")
              /\ UNCHANGED warnings
  /\ UNCHANGED <<env, loc, state, writes, outputs, failed, restoreCalls,
                 saveCalls, store>>

\* post.js 34-42: split the path list and call the store
CallSave(r) ==
  /\ pc[r].post = "save"
  /\ LET paths == SplitPaths(post[r].cachePaths)
     IN  /\ post' = [post EXCEPT ![r].paths = paths]
         /\ saveCalls' = [saveCalls EXCEPT ![r] =
                            Append(@, [by |-> "post", paths |-> paths,
                                       key |-> post[r].cacheKey,
                                       answer |-> "pending"])]
  /\ Goto(r, "post", "await_save")
  /\ UNCHANGED <<env, loc, state, writes, outputs, failed, warnings,
                 restoreCalls, store>>

\* the inner catch reporting the failure with core.setFailed
SaveFailed_Fatal(r) ==
  /\ failed' = [failed EXCEPT ![r] = @ \cup {"post"}]
  /\ Exit(r, "save-failed")
  /\ UNCHANGED <<warnings, store>>

\* post.js 44-47: the inner catch, a warning and nothing else
SaveFailed(r) ==
  /\ warnings' = [warnings EXCEPT ![r] =
                    @ \cup {[by |-> "post", msg |-> "Cache save failed"]}]
  /\ Exit(r, "save-failed")
  /\ UNCHANGED <<failed, store>>

\* post.js 42-47: the store answers
SaveReturn(r) ==
  /\ pc[r].post = "await_save"
  /\ \E ans \in SaveAnswers(saveCalls[r][Len(saveCalls[r])]) :
       /\ saveCalls' = [saveCalls EXCEPT ![r][Len(saveCalls[r])].answer = ans]
       /\ IF ans = "saved"
          THEN /\ store' = store \cup {[key |-> post[r].cacheKey,
                                        paths |-> post[r].paths, by |-> r]}
               /\ Exit(r, "saved")
               /\ UNCHANGED <<failed, warnings>>
          ELSE SaveFailed(r)
  /\ UNCHANGED <<env, loc, state, writes, outputs, restoreCalls>>

(***************************************************************************)
(* Specification: one job run.  It starts either at job start, with an     *)
(* empty state store, or at job end with whatever state the runner hands   *)
(* to the post script (main.js did not run in this context).               *)
(***************************************************************************)
HandedStates ==
  {st \in [StateNames -> {Absent, <<"true">>, <<"false">>,
                          <<"golang", "-", "Linux">>, JoinPaths(CachePaths)}] :
     /\ st["cache-hit"] \in {Absent, <<"true">>, <<"false">>}
     /\ st["cache-key"] \in {Absent, <<"golang", "-", "Linux">>}
     /\ st["cache-paths"] \in {Absent, JoinPaths(CachePaths)}}

Off == [main |-> "off", post |-> "off", tail |-> "off"]
AtJobStart == [main |-> "start", post |-> "start", tail |-> "start"]
AtJobEnd == [main |-> "none", post |-> "start", tail |-> "start"]

\* the job runs of `started` begin; the others never run
InitRuns(started) ==
  /\ \E e \in [started -> Envs] :
       env = [r \in Runs |-> IF r \in started THEN e[r]
                             ELSE CHOOSE x \in Envs : TRUE]
  /\ \E st \in [started -> {NoState} \cup HandedStates] :
       /\ state = [r \in Runs |-> IF r \in started THEN st[r] ELSE NoState]
       /\ \E at \in [started -> {AtJobStart, AtJobEnd}] :
            /\ \A r \in started : at[r] = AtJobStart => st[r] = NoState
            /\ pc = [r \in Runs |-> IF r \in started THEN at[r] ELSE Off]
  /\ loc = [r \in Runs |-> [p \in Scripts |-> NoLocals]]
  /\ post = [r \in Runs |-> NoPostLocals]
  /\ writes = [r \in Runs |-> <<>>]
  /\ outputs = [r \in Runs |-> NoOutputs]
  /\ failed = [r \in Runs |-> {}]
  /\ warnings = [r \in Runs |-> {}]
  /\ restoreCalls = [r \in Runs |-> <<>>]
  /\ saveCalls = [r \in Runs |-> <<>>]
  /\ store = {}

Init == InitRuns({"r1"})

Next ==
  \E r \in Runs :
    \/ \E p \in Scripts : Begin(r, p)
    \/ \E p \in Scripts : Install(r, p)
    \/ \E p \in Scripts : Hash(r, p)
    \/ \E p \in Scripts : CallRestore(r, p)
    \/ \E p \in Scripts : RestoreReturn(r, p)
    \/ BranchGuard(r)
    \/ HitGuard(r)
    \/ IntegrityGuard(r)
    \/ CallSave(r)
    \/ SaveReturn(r)

Spec == Init /\ [][Next]_vars

(***************************************************************************)
(* Specification of the key derivation: two job runs, whose job names may  *)
(* hold the delimiter and the text of a fingerprint, run main.js from the  *)
(* start up to the call of cache.restoreCache (main.js 28-146).            *)
(***************************************************************************)
KeyJobAtoms == {"build", "-", "missing"}
\* job names made of words and delimiters, a word at either end
KeyJobNames ==
  {s \in UNION {[1..n -> KeyJobAtoms] : n \in 1..MaxJobNameLen} :
     /\ s[1] # "-" /\ s[Len(s)] # "-"
     /\ \A i \in 1..(Len(s) - 1) : s[i] = "-" \/ s[i + 1] = "-"}

KeyEnvs ==
  [goVersionFile : {<<"go.mod">>},
   jobName       : KeyJobNames,
   RUNNER_OS     : {<<>>, <<"macOS">>},
   cacheDependencyPath : DependencyPaths]

InitKeys ==
  /\ env \in [Runs -> KeyEnvs]
  /\ pc = [r \in Runs |-> AtJobStart]
  /\ state = [r \in Runs |-> NoState]
  /\ loc = [r \in Runs |-> [p \in Scripts |-> NoLocals]]
  /\ post = [r \in Runs |-> NoPostLocals]
  /\ writes = [r \in Runs |-> <<>>]
  /\ outputs = [r \in Runs |-> NoOutputs]
  /\ failed = [r \in Runs |-> {}]
  /\ warnings = [r \in Runs |-> {}]
  /\ restoreCalls = [r \in Runs |-> <<>>]
  /\ saveCalls = [r \in Runs |-> <<>>]
  /\ store = {}

NextKeys ==
  \E r \in Runs :
    \/ Begin(r, "main")
    \/ Install(r, "main")
    \/ Hash(r, "main")
    \/ CallRestore(r, "main")

SpecKeys == InitKeys /\ [][NextKeys]_vars

(***************************************************************************)
(* Specification of the race: two job runs of the same job, at job end,    *)
(* each handed the state its main.js persisted after a miss (main.js       *)
(* 142-160 with restoredKey undefined).  The runs agree on everything but, *)
(* possibly, the installed version, and run their post scripts against one *)
(* artifact store.                                                         *)
(***************************************************************************)
RaceEnv ==
  [goVersionFile |-> <<"go.mod">>, jobName |-> <<"build">>, RUNNER_OS |-> <<>>,
   cacheDependencyPath |-> DefaultDependencyPath]

\* what main.js persists (158-160) after restoreCache matched nothing
MissedState(e, version, digest) ==
  LET cacheKey == CacheKey(Runner(e), version, JobName(e), digest)
  IN  PersistState(NoState,
                   [NoLocals EXCEPT !.cacheKey = cacheKey,
                                    !.cachePaths = CachePaths,
                                    !.cacheHit = ComputeHit(Absent, cacheKey)])

InitRace ==
  /\ env = [r \in Runs |-> RaceEnv]
  /\ \E v \in [Runs -> Versions] : \E digest \in FileHashes :
       state = [r \in Runs |-> MissedState(RaceEnv, v[r], digest)]
  /\ pc = [r \in Runs |-> AtJobEnd]
  /\ loc = [r \in Runs |-> [p \in Scripts |-> NoLocals]]
  /\ post = [r \in Runs |-> NoPostLocals]
  /\ writes = [r \in Runs |-> <<>>]
  /\ outputs = [r \in Runs |-> NoOutputs]
  /\ failed = [r \in Runs |-> {}]
  /\ warnings = [r \in Runs |-> {}]
  /\ restoreCalls = [r \in Runs |-> <<>>]
  /\ saveCalls = [r \in Runs |-> <<>>]
  /\ store = {}

SpecRace == InitRace /\ [][Next]_vars

(***************************************************************************)
(* Properties                                                              *)
(***************************************************************************)
\* the tail of post.js has overwritten the state the save phase read
TailWrote(r) == \E i \in 1..Len(writes[r]) : writes[r][i].by = "tail"

\* main.js persisted the session state of run r
MainWrote(r) == \E i \in 1..Len(writes[r]) : writes[r][i].by = "main"

\* the save phase of run r has read the ref and it is the primary branch
OnPrimary(r) == post[r].ref = PrimaryRef

\* C1: whatever the persisted state, once the save phase has read a ref other
\* than refs/heads/master it is over and cache.saveCache was not and is never
\* called.
C1_BranchGuard ==
  \A r \in Runs :
    (post[r].ref # "" /\ post[r].ref # PrimaryRef)
      => /\ pc[r].post = "done"
         /\ post[r].exit = "branch"
         /\ saveCalls[r] = <<>>

\* a save phase that ended at the branch guard although the persisted state
\* asked for a save (a miss, with key and paths present)
C1_Witness ==
  \E r \in Runs :
    /\ post[r].ref = "refs/pull/7/merge"
    /\ pc[r].post = "done"
    /\ MainWrote(r) /\ ~TailWrote(r)
    /\ state[r]["cache-hit"] = <<"false">>
    /\ state[r]["cache-key"] # Absent
    /\ state[r]["cache-paths"] # Absent

\* C2: while the persisted cache-hit the save phase reads is "true", the save
\* phase never gets past the hit guard and cache.saveCache is not called, on
\* any branch and whatever cache-key and cache-paths hold.
C2_HitGuard ==
  \A r \in Runs :
    (state[r]["cache-hit"] = <<"true">> /\ ~TailWrote(r))
      => /\ saveCalls[r] = <<>>
         /\ pc[r].post \notin {"integrity_guard", "save", "await_save"}
         /\ (pc[r].post = "done" => post[r].exit \in {"branch", "hit"})

\* on the primary branch, after an exact hit, the save phase ended at the hit guard
C2_Witness ==
  \E r \in Runs :
    /\ OnPrimary(r)
    /\ pc[r].post = "done" /\ post[r].exit = "hit"
    /\ MainWrote(r) /\ ~TailWrote(r)
    /\ loc[r].main.restoredKey = loc[r].main.cacheKey
    /\ saveCalls[r] = <<>>

\* C3: cache.saveCache is called at most once, and a save phase that is past
\* its guards or has ended, on the primary branch with persisted cache-hit
\* "false", cache-key and cache-paths present, has called it exactly once, with
\* the persisted key and, when main.js persisted the state, with the very list
\* of directories main.js joined into cache-paths.
C3_SaveOnce ==
  \A r \in Runs :
    /\ Len(saveCalls[r]) <= 1
    /\ (/\ pc[r].post \in {"await_save", "done"} /\ OnPrimary(r) /\ ~TailWrote(r)
        /\ state[r]["cache-hit"] = <<"false">>
        /\ state[r]["cache-key"] # Absent
        /\ state[r]["cache-paths"] # Absent)
         => /\ Len(saveCalls[r]) = 1
            /\ saveCalls[r][1].key = state[r]["cache-key"]
            /\ MainWrote(r) =>
                 /\ saveCalls[r][1].paths = loc[r].main.cachePaths
                 /\ saveCalls[r][1].key = loc[r].main.cacheKey

\* after a restore that matched only a fallback key, the save phase has
\* called the store and ended
C3_Witness ==
  \E r \in Runs :
    /\ pc[r].post = "done" /\ OnPrimary(r)
    /\ MainWrote(r) /\ ~TailWrote(r)
    /\ loc[r].main.restoredKey # Absent
    /\ Len(saveCalls[r]) = 1
    /\ Len(saveCalls[r][1].paths) = 2
    /\ saveCalls[r][1].answer = "saved"

\* C4: on the primary branch with persisted cache-hit not "true", if the
\* persisted cache-key or cache-paths is absent then cache.saveCache is not
\* called, and the save phase ends at the integrity guard with the warning.
C4_IntegrityGuard ==
  \A r \in Runs :
    (/\ OnPrimary(r) /\ ~TailWrote(r)
     /\ state[r]["cache-hit"] # <<"true">>
     /\ (state[r]["cache-key"] = Absent \/ state[r]["cache-paths"] = Absent))
      => /\ saveCalls[r] = <<>>
         /\ pc[r].post \in {"hit_guard", "integrity_guard", "done"}
         /\ pc[r].post = "done" =>
              /\ post[r].exit = "no-config"
              /\ [by |-> "post", msg |-> "Cache configuration not found"]
                   \in warnings[r]

\* main.js failed before persisting anything and the save phase, on the
\* primary branch, ended at the integrity guard
C4_Witness ==
  \E r \in Runs :
    /\ "main" \in failed[r] /\ writes[r] = <<>>
    /\ OnPrimary(r)
    /\ pc[r].post = "done" /\ post[r].exit = "no-config"

\* script p of run r has called cache.restoreCache, and the call it made
HasCall(r, p) == \E i \in 1..Len(restoreCalls[r]) : restoreCalls[r][i].by = p
CallOf(r, p) ==
  restoreCalls[r][CHOOSE i \in 1..Len(restoreCalls[r]) : restoreCalls[r][i].by = p]

\* the session state in the store is the one script p persisted
Visible(r, p) ==
  \/ p = "main" /\ MainWrote(r) /\ ~TailWrote(r)
  \/ p = "tail" /\ TailWrote(r)

\* C5: once the store has answered a restore call with a key or with nothing,
\* cacheHit is true exactly when the answer is the primary key of the call, and
\* that is the cache-hit persisted and set as output; an answer that is another
\* element of the restore key list leaves cacheHit false.
C5_HitIffExact ==
  \A r \in Runs : \A p \in Scripts :
    (HasCall(r, p) /\ ~CallOf(r, p).answer.pending /\ ~CallOf(r, p).answer.threw)
      => LET call == CallOf(r, p)
             exact == call.answer.key = call.key
         IN  /\ loc[r][p].cacheHit = exact
             /\ Visible(r, p) => state[r]["cache-hit"] = BoolToString(exact)
             /\ (\E i \in 2..Len(call.restoreKeys) :
                    /\ call.answer.key = call.restoreKeys[i]
                    /\ call.restoreKeys[i] # call.key)
                  => ~loc[r][p].cacheHit

\* the store restored the entry of the second restore key: content was
\* restored and cacheHit is false
C5_Witness ==
  \E r \in Runs :
    /\ HasCall(r, "main") /\ pc[r].main = "done"
    /\ CallOf(r, "main").answer.key = CallOf(r, "main").restoreKeys[2]
    /\ CallOf(r, "main").restoreKeys[1] = CallOf(r, "main").key
    /\ loc[r].main.restoredKey # Absent
    /\ ~loc[r].main.cacheHit
    /\ state[r]["cache-hit"] = <<"false">>

\* C6: when cache.restoreCache throws, the script warns, does not call
\* core.setFailed, keeps cacheHit false and restoredKey absent, and ends having
\* persisted cache-key, cache-paths and cache-hit "false".
C6_RestoreFailureNotFatal ==
  \A r \in Runs : \A p \in Scripts :
    (HasCall(r, p) /\ CallOf(r, p).answer.threw)
      => /\ pc[r][p] = "done"
         /\ p \notin failed[r]
         /\ [by |-> p, msg |-> "Cache restore failed"] \in warnings[r]
         /\ ~loc[r][p].cacheHit
         /\ loc[r][p].restoredKey = Absent
         /\ \A n \in StateNames :
              \E i \in 1..Len(writes[r]) : writes[r][i] = [name |-> n, by |-> p]
         /\ Visible(r, p) =>
              state[r] = [n \in StateNames |->
                            IF n = "cache-key" THEN CallOf(r, p).key
                            ELSE IF n = "cache-paths"
                                 THEN JoinPaths(CallOf(r, p).paths)
                                 ELSE <<"false">>]

\* main.js ended after the store threw
C6_Witness ==
  \E r \in Runs :
    /\ HasCall(r, "main") /\ CallOf(r, "main").answer.threw
    /\ pc[r].main = "done"
    /\ pc[r].post = "start"
    /\ state[r]["cache-hit"] = <<"false">>

\* C7: run() of the save phase never calls core.setFailed, and when
\* cache.saveCache fails the save phase ends with a warning.
C7_SaveFailureNotFatal ==
  \A r \in Runs :
    /\ "post" \notin failed[r]
    /\ \A i \in 1..Len(saveCalls[r]) :
         saveCalls[r][i].answer \in {"failed", "exists"}
           => /\ pc[r].post = "done"
              /\ post[r].exit = "save-failed"
              /\ [by |-> "post", msg |-> "Cache save failed"] \in warnings[r]

\* the store refused a save and the save phase has ended
C7_Witness ==
  \E r \in Runs :
    /\ Len(saveCalls[r]) = 1
    /\ saveCalls[r][1].answer = "failed"
    /\ pc[r].post = "done"
    /\ failed[r] = {}

\* C8: when cache.restoreCache matches nothing, cacheHit is false, no restored
\* key is recorded, core.setFailed is not called, and the script ends having
\* persisted cache-key, cache-paths and cache-hit "false".
C8_RestoreMiss ==
  \A r \in Runs : \A p \in Scripts :
    (/\ HasCall(r, p) /\ ~CallOf(r, p).answer.pending
     /\ ~CallOf(r, p).answer.threw /\ CallOf(r, p).answer.key = Absent)
      => /\ pc[r][p] = "done"
         /\ p \notin failed[r]
         /\ ~loc[r][p].cacheHit
         /\ loc[r][p].restoredKey = Absent
         /\ Visible(r, p) =>
              state[r] = [n \in StateNames |->
                            IF n = "cache-key" THEN CallOf(r, p).key
                            ELSE IF n = "cache-paths"
                                 THEN JoinPaths(CallOf(r, p).paths)
                                 ELSE <<"false">>]

\* main.js ended after the store matched nothing
C8_Witness ==
  \E r \in Runs :
    /\ HasCall(r, "main")
    /\ CallOf(r, "main").answer = [pending |-> FALSE, threw |-> FALSE,
                                   key |-> Absent]
    /\ pc[r].main = "done"
    /\ failed[r] = {}
    /\ state[r]["cache-hit"] = <<"false">>
    /\ outputs[r]["cache-hit"] = <<"false">>

\* the key the specification gives for a list of segments: the namespace tag
\* and the segments, joined by "-"
KeyOfSegments(segs) == Join(<< <<"golang">> >> \o segs, "-")

\* the Identity Tuple of script p of run r: os, toolchainVersion, jobName, contentHash
IdentityTuple(r, p) ==
  << Runner(env[r]), loc[r][p].installedVersion, loc[r][p].jobName,
     loc[r][p].goSumHash >>

\* C9: the restore key list handed to cache.restoreCache is, for every
\* Identity Tuple, the four keys golang-os-version-job-hash,
\* golang-os-version-job, golang-os-version, golang-os in this order (each the
\* previous one with its last segment dropped), and its first element is the
\* primary key of the call.
C9_FourKeys ==
  \A r \in Runs :
    HasCall(r, "main")
      => LET t == IdentityTuple(r, "main")
             call == CallOf(r, "main")
         IN  /\ call.restoreKeys =
                  << KeyOfSegments(t), KeyOfSegments(SubSeq(t, 1, 3)),
                     KeyOfSegments(SubSeq(t, 1, 2)), KeyOfSegments(SubSeq(t, 1, 1)) >>
             /\ call.key = call.restoreKeys[1]

\* C10: within one job run each of the three session state fields is written
\* exactly once, by main.js, and the post script writes none of them and never
\* calls cache.restoreCache.
C10_WrittenOnceByRestore ==
  \A r \in Runs : pc[r].main # "none" =>
    /\ \A i \in 1..Len(writes[r]) : writes[r][i].by = "main"
    /\ \A n \in StateNames :
         Cardinality({i \in 1..Len(writes[r]) : writes[r][i].name = n}) <= 1
    /\ (pc[r].main = "done" /\ "main" \notin failed[r])
         => \A n \in StateNames :
              Cardinality({i \in 1..Len(writes[r]) : writes[r][i].name = n}) = 1
    /\ \A i \in 1..Len(restoreCalls[r]) : restoreCalls[r][i].by = "main"

\* what does hold of the restore key list: the statement of C9 for the job
\* names that hold no line break
FourKeysWithoutLineBreak ==
  \A r \in Runs :
    (HasCall(r, "main") /\ \A i \in 1..Len(loc[r].main.jobName) : loc[r].main.jobName[i] # NL)
      => LET t == IdentityTuple(r, "main")
             call == CallOf(r, "main")
         IN  /\ call.restoreKeys =
                  << KeyOfSegments(t), KeyOfSegments(SubSeq(t, 1, 3)),
                     KeyOfSegments(SubSeq(t, 1, 2)), KeyOfSegments(SubSeq(t, 1, 1)) >>
             /\ call.key = call.restoreKeys[1]

\* the fatal precondition that script p of run r met, or "" when it met none.
\* The working directory that main.js found missing (main.js 40) is the one
\* the tail of post.js is given too (post.js 92).
FatalPrecondition(r, p) ==
  IF env[r].goVersionFile = <<>> THEN "go-version-file input is required"
  ELSE IF loc[r].main.error = "Working directory does not exist"
  THEN "Working directory does not exist"
  ELSE IF loc[r][p].error \in {"Could not find Go version",
                               "Failed to verify Go installation"}
  THEN loc[r][p].error
  ELSE ""

Began(r, p) == pc[r][p] \notin {"off", "none", "start"}

WroteState(r, p) == \E i \in 1..Len(writes[r]) : writes[r][i].by = p

\* C11: a set-up routine that has begun with the go-version-file input missing,
\* with the working directory missing, or with no toolchain version to be
\* determined has ended with the job failure signal raised, has not called
\* cache.restoreCache and has persisted no session state.
C11_FatalPreconditions ==
  \A r \in Runs : \A p \in Scripts :
    (Began(r, p) /\ FatalPrecondition(r, p) # "")
      => /\ pc[r][p] = "done"
         /\ p \in failed[r]
         /\ ~HasCall(r, p)
         /\ ~WroteState(r, p)

\* what does hold: the statement of C11 for main.js alone
MainAbortsOnFatalPrecondition ==
  \A r \in Runs :
    (Began(r, "main") /\ FatalPrecondition(r, "main") # "")
      => /\ pc[r].main = "done"
         /\ "main" \in failed[r]
         /\ ~HasCall(r, "main")
         /\ ~WroteState(r, "main")

LastSegment(key) == SubSeq(key, Len(key) - 1, Len(key))

\* C12: when go.sum cannot be read the fingerprint is the sentinel "missing",
\* the job failure signal is not raised for it, and the set-up routine goes on
\* to call cache.restoreCache with a primary key whose last segment is "missing".
C12_UnreadableFile ==
  \A r \in Runs : \A p \in Scripts :
    loc[r][p].goSumRead = "unreadable"
      => /\ loc[r][p].goSumHash = <<"missing">>
         /\ p \notin failed[r]
         /\ [by |-> p, msg |-> "Could not read"] \in warnings[r]
         /\ pc[r][p] \in {"keys", "await_restore", "done"}
         /\ pc[r][p] \in {"await_restore", "done"}
              => /\ HasCall(r, p)
                 /\ LastSegment(CallOf(r, p).key) = <<"-", "missing">>
                 /\ loc[r][p].cacheKey = CallOf(r, p).key
         /\ pc[r][p] = "done"
              => (WroteState(r, p)
                    /\ (~TailWrote(r) \/ p = "tail")
                         => LastSegment(state[r]["cache-key"]) = <<"-", "missing">>)

C12_Witness ==
  \E r \in Runs :
    /\ loc[r].main.goSumRead = "unreadable"
    /\ pc[r].main = "done"
    /\ "main" \notin failed[r]
    /\ HasCall(r, "main")
    /\ LastSegment(CallOf(r, "main").key) = <<"-", "missing">>

\* C13: the file the set-up routine fingerprints is the one named by the
\* cache-dependency-path input (go.sum when the input is left at its default).
C13_DependencyPathConsumed ==
  \A r \in Runs : \A p \in Scripts :
    loc[r][p].goSumRead # ""
      => loc[r][p].goSumPath = PathJoin(WorkingDirectory, env[r].cacheDependencyPath)

\* what does hold: the fingerprinted file is go.sum in the working directory,
\* whatever the input says
FingerprintsGoSum ==
  \A r \in Runs : \A p \in Scripts :
    loc[r][p].goSumRead # "" => loc[r][p].goSumPath = <<".", "/", "go.sum">>

\* the calls of cache.restoreCache made so far, of every run and script
Derivations == {<<r, p>> \in Runs \X Scripts : HasCall(r, p)}

CompletedLast(r, p) ==
  /\ pc[r][p] = "done"
  /\ p \notin failed[r]
  /\ p = "main" => loc[r].tail.installedVersion = <<>>

\* C15: when the set-up routine completes without a fatal error the output
\* cache-hit is "true" or "false" and equals the persisted cache-hit, and the
\* output go-version is the installed version, which is the version segment
\* of the persisted cache-key.
C15_Outputs ==
  \A r \in Runs : \A p \in Scripts :
    CompletedLast(r, p)
      => /\ outputs[r]["cache-hit"] \in {<<"true">>, <<"false">>}
         /\ outputs[r]["cache-hit"] = state[r]["cache-hit"]
         /\ outputs[r]["cache-hit"] = BoolToString(loc[r][p].cacheHit)
         /\ outputs[r]["go-version"] = loc[r][p].installedVersion
         /\ outputs[r]["go-version"] \in Versions
         /\ state[r]["cache-key"] =
              CacheKey(Runner(env[r]), outputs[r]["go-version"], loc[r][p].jobName,
                       loc[r][p].goSumHash)
         /\ SubSeq(state[r]["cache-key"], 5, 5) = outputs[r]["go-version"]

C15_Witness ==
  \E r \in Runs :
    /\ CompletedLast(r, "main")
    /\ outputs[r]["cache-hit"] = <<"true">>
    /\ state[r]["cache-hit"] = <<"true">>
    /\ outputs[r]["go-version"] = <<"1.21.5">>
    /\ SubSeq(state[r]["cache-key"], 5, 5) = <<"1.21.5">>

\* the restore call of main.js in run r returned exactly the primary key
ExactMatch(r) ==
  /\ ~CallOf(r, "main").answer.threw
  /\ CallOf(r, "main").answer.key = CallOf(r, "main").key

\* C16: in a job run on the primary branch whose main.js completed without a
\* fatal error, the save phase calls cache.saveCache if and only if the restore
\* call did not return exactly the primary key (a fallback key, nothing, or an
\* error), and the key of the save call is the primary key main.js computed in
\* this run, never the fallback key the store matched.
C16_WriteBack ==
  \A r \in Runs :
    (pc[r].main = "done" /\ "main" \notin failed[r] /\ OnPrimary(r))
      => /\ Len(saveCalls[r]) <= 1
         /\ pc[r].post \in {"await_save", "done"}
              => (saveCalls[r] # <<>> <=> ~ExactMatch(r))
         /\ \A i \in 1..Len(saveCalls[r]) :
              /\ saveCalls[r][i].key = CallOf(r, "main").key
              /\ saveCalls[r][i].key = loc[r].main.cacheKey
              /\ ~ExactMatch(r)
              /\ saveCalls[r][i].key # CallOf(r, "main").answer.key

C16_Witness ==
  \E r \in Runs :
    /\ pc[r].main = "done" /\ "main" \notin failed[r] /\ OnPrimary(r)
    /\ pc[r].post = "done"
    /\ CallOf(r, "main").answer.key \notin {Absent, CallOf(r, "main").key}
    /\ Len(saveCalls[r]) = 1
    /\ saveCalls[r][1].key = CallOf(r, "main").key
    /\ saveCalls[r][1].answer = "saved"

NoConfigWarning == [by |-> "post", msg |-> "Cache configuration not found"]

\* C17: the save phase evaluates its guards in the order branch, hit,
\* integrity, and ends at the first that applies: ended by the branch guard it
\* has read no state, ended by the hit guard it has not read cache-key or
\* cache-paths, and a save phase off the primary branch or one that read
\* cache-hit as "true" has not logged the "cache configuration not found"
\* warning, even with cache-key or cache-paths absent.
C17_GuardOrder ==
  \A r \in Runs :
    /\ (post[r].ref # "" /\ ~OnPrimary(r))
         => /\ post[r].exit = "branch" /\ pc[r].post = "done"
            /\ ~post[r].cacheHit /\ post[r].cacheKey = <<>> /\ post[r].cachePaths = <<>>
            /\ NoConfigWarning \notin warnings[r]
            /\ saveCalls[r] = <<>>
    /\ post[r].cacheHit
         => /\ OnPrimary(r)
            /\ post[r].exit = "hit" /\ pc[r].post = "done"
            /\ post[r].cacheKey = <<>> /\ post[r].cachePaths = <<>>
            /\ NoConfigWarning \notin warnings[r]
            /\ saveCalls[r] = <<>>
    /\ (state[r]["cache-hit"] = <<"true">> /\ ~TailWrote(r))
         => /\ NoConfigWarning \notin warnings[r]
            /\ post[r].exit \in {"", "branch", "hit"}
    /\ NoConfigWarning \in warnings[r]
         => /\ OnPrimary(r) /\ ~post[r].cacheHit
            /\ post[r].exit = "no-config"

\* the state handed to the save phase lacks cache-key or cache-paths, and the
\* phase ended at an earlier guard without the warning
C17_Witness ==
  \E r \in Runs :
    /\ pc[r].post = "done" /\ pc[r].tail = "start"
    /\ ConfigMissing(state[r]["cache-key"], state[r]["cache-paths"])
    /\ state[r]["cache-hit"] = <<"true">>
    /\ post[r].exit = "hit"
    /\ NoConfigWarning \notin warnings[r]

\* both runs are on the primary branch and have each called cache.saveCache
\* once, under the same key
Racing ==
  /\ \A r \in Runs : OnPrimary(r) /\ Len(saveCalls[r]) = 1
  /\ saveCalls["r1"][1].key = saveCalls["r2"][1].key

EntriesOf(key) == {e \in store : e.key = key}

\* C18: two job runs on the primary branch that missed the same primary key
\* race to save it.  Neither save phase raises the job failure signal or can
\* block; a writer the store refuses ends with a warning; the store never
\* holds two entries for the key; and once both calls are answered, by a
\* store that refuses nothing but an existing key, it holds exactly one, the
\* first writer's.
C18_Race ==
  /\ \A r \in Runs :
       /\ "post" \notin failed[r]
       /\ pc[r].post \in {"hit_guard", "integrity_guard", "save", "await_save"}
            => ENABLED (HitGuard(r) \/ IntegrityGuard(r) \/ CallSave(r) \/ SaveReturn(r))
       /\ \A i \in 1..Len(saveCalls[r]) :
            saveCalls[r][i].answer \in {"failed", "exists"}
              => /\ pc[r].post = "done"
                 /\ [by |-> "post", msg |-> "Cache save failed"] \in warnings[r]
  /\ \A e1 \in store : \A e2 \in store : e1.key = e2.key => e1 = e2
  /\ Racing =>
       LET key == saveCalls["r1"][1].key
           answers == {saveCalls[r][1].answer : r \in Runs}
       IN  /\ "exists" \in answers => "saved" \in answers
           /\ answers \subseteq {"saved", "exists"}
                => /\ Cardinality(EntriesOf(key)) = 1
                   /\ answers = {"saved", "exists"}
                   /\ \A r \in Runs :
                        /\ pc[r].post = "done"
                        /\ saveCalls[r][1].answer = "saved"
                             <=> EntriesOf(key) = {[key |-> key, paths |-> CachePaths,
                                                    by |-> r]}

C18_Witness ==
  /\ Racing
  /\ saveCalls["r2"][1].answer = "saved"
  /\ saveCalls["r1"][1].answer = "exists"
  /\ Len(restoreCalls["r1"]) = 0
  /\ pc["r1"].post = "done" /\ pc["r2"].post = "done"
  /\ failed["r1"] = {} /\ failed["r2"] = {}
  /\ [by |-> "post", msg |-> "Cache save failed"] \in warnings["r1"]
  /\ Cardinality(store) = 1

PendingCalls(r) ==
  Cardinality({i \in 1..Len(restoreCalls[r]) : restoreCalls[r][i].answer.pending})
    + Cardinality({i \in 1..Len(saveCalls[r]) : saveCalls[r][i].answer = "pending"})

\* C19: within one job run at most one store call is pending at any time,
\* at most one restore call and at most one save call are made, the restore
\* call has returned or failed before any session state is persisted, and the
\* session state is persisted before a save call is made.
C19_CallDiscipline ==
  \A r \in Runs : pc[r].main # "none" =>
    /\ PendingCalls(r) <= 1
    /\ Len(restoreCalls[r]) <= 1
    /\ Len(saveCalls[r]) <= 1
    /\ writes[r] # <<>>
         => (restoreCalls[r] # <<>> /\ ~restoreCalls[r][1].answer.pending)
    /\ saveCalls[r] # <<>> => MainWrote(r)

\* what does hold: the statement of C19 for main.js and the save phase, the
\* calls of the routine appended to post.js left out
CallDisciplineOfMainAndSave ==
  \A r \in Runs : pc[r].main # "none" =>
    LET mine == SelectSeq(restoreCalls[r], LAMBDA c : c.by = "main")
    IN  /\ Len(mine) <= 1
        /\ Len(saveCalls[r]) <= 1
        /\ ~(mine # <<>> /\ mine[1].answer.pending /\ saveCalls[r] # <<>>)
        /\ MainWrote(r) => (mine # <<>> /\ ~mine[1].answer.pending)
        /\ saveCalls[r] # <<>> => MainWrote(r)

\* the keys of the restore key list handed to cache.restoreCache
KeysOf(list) == {list[i] : i \in 1..Len(list)}

HasDelimiter(s) == \E i \in 1..Len(s) : s[i] = "-"

\* C20: for any two derivations from different Identity Tuples T and T', the
\* primary key of T differs from the primary key of T' and from every key of
\* the restore key list of T', job names holding the delimiter included.
C20_KeyIsolation ==
  \A d1 \in Derivations : \A d2 \in Derivations :
    IdentityTuple(d1[1], d1[2]) # IdentityTuple(d2[1], d2[2])
      => /\ CallOf(d1[1], d1[2]).key # CallOf(d2[1], d2[2]).key
         /\ CallOf(d1[1], d1[2]).key \notin KeysOf(CallOf(d2[1], d2[2]).restoreKeys)

\* what does hold: primary keys of different tuples differ, and the primary
\* key of T is no fallback key of a T' whose job name holds no delimiter
IsolationWithoutDelimiter ==
  \A d1 \in Derivations : \A d2 \in Derivations :
    IdentityTuple(d1[1], d1[2]) # IdentityTuple(d2[1], d2[2])
      => /\ CallOf(d1[1], d1[2]).key # CallOf(d2[1], d2[2]).key
         /\ ~HasDelimiter(loc[d2[1]][d2[2]].jobName)
              => CallOf(d1[1], d1[2]).key \notin KeysOf(CallOf(d2[1], d2[2]).restoreKeys)

====
